---- MODULE Spec2Model ----
(***************************************************************************)
(* Model of self_organising_systems/biomakerca/mutators.py: the asexual    *)
(* mutators BasicMutator and RandomlyAdaptiveMutator, the noise generator  *)
(* valuenoise1d and CrossOverSexualMutator.                                *)
(*                                                                         *)
(* Numbers are integers in a fixed unit (floating-point rounding is not    *)
(* modelled).  A vector is a sequence.  A random key is the path of splits *)
(* that produced it; what a sampler returns for a key is chosen            *)
(* nondeterministically from a small sample set.                           *)
(***************************************************************************)
EXTENDS Integers, Sequences, FiniteSets, TLC

VARIABLES
  mutator,   \* the asexual Mutator object (kind "none" before construction)
  sexual,    \* <<>> or <<n_frequencies>> of the CrossOverSexualMutator
  genome,    \* the full parameter vector the caller holds (<<>>: none yet)
  ret,       \* the vector the last call returned (<<>>: none, or adopted)
  op,        \* the last operation
  raised,    \* TRUE when the last call ended in an exception
  arg,       \* the raw vector passed to the last initialize
  mask,      \* the Bernoulli mask drawn by the last asexual mutate
  keys,      \* the key events of the last call, in program order
  draws,     \* what the samplers of the wrapped mutator returned in it
  xo,        \* the record of the last CrossOverSexualMutator.mutate
  noise      \* the record of the last valuenoise1d

vars == <<mutator, sexual, genome, ret, op, raised, arg, mask, keys, draws, xo,
         noise>>

(***************************************************************************)
(* Bounds of the model.                                                    *)
(***************************************************************************)
MaxLen == 2     \* model vectors have 1..MaxLen parameters
MaxVal == 2     \* mutate is explored while the values' absolute sum <= MaxVal
MaxF   == 3     \* n_frequencies ranges over 2..MaxF
MaxN   == 6     \* valuenoise1d is called directly with n in 1..MaxN

(***************************************************************************)
(* Program constants.                                                      *)
(***************************************************************************)
TruncLo == -3   \* jr.truncated_normal(ku, -3, 3, ...)
TruncHi == 3

(***************************************************************************)
(* Vectors.                                                                *)
(***************************************************************************)
Vec(S, n) == [1..n -> S]

Full(n, v) == [i \in 1..n |-> v]

Max(a, b) == IF a >= b THEN a ELSE b
Min(a, b) == IF a <= b THEN a ELSE b


\* a clip that forgets the upper bound
ClipLowerOnly(x, lo, hi) == Max(x, lo)

\* x.clip(lo, hi) = minimum(maximum(x, lo), hi)
Clip(x, lo, hi) == Min(Max(x, lo), hi)

(***************************************************************************)
(* Sample sets: the values a sampler may return at one index.              *)
(***************************************************************************)
\* jr.normal
NormalSamples == {-1, 1}
\* jr.truncated_normal(ku, -3, 3, shape)
TruncatedNormalSamples == {z \in NormalSamples : TruncLo <= z /\ z <= TruncHi}
\* jr.uniform(k, shape), in halves: 0.0 and 0.5 of [0, 1)
UniformSamples == {0, 1}
\* change_perc is in halves too: 0 is 0.0, 1 is 0.5 and 2 is 1.0
\* jr.uniform(ku, (f,), minval=-1, maxval=1), in halves: -0.5, 0.0, 0.5
GradSamples == {-1, 0, 1}
\* the same sampler inside a sexual mutate, where every draw multiplies the
\* wrapped mutator's
XoGradSamples == {-1, 1}

(***************************************************************************)
(* Random keys.                                                            *)
(***************************************************************************)
RootKey == <<>>

\* jr.split(key): the two children of a key
Split(key) == <<Append(key, 0), Append(key, 1)>>

KeySplit(k)  == [kind |-> "split",  key |-> k]
KeySample(k) == [kind |-> "sample", key |-> k]
KeyCall(k)   == [kind |-> "call",   key |-> k]

(***************************************************************************)
(* Mutator objects.  change_perc is <<>> for None and <<c>> otherwise.     *)
(***************************************************************************)
NoMutator ==
  [kind |-> "none", sd |-> 0, change_perc |-> <<>>, init_sd |-> 0,
   meta_sd_perc |-> 0, min_sd |-> 0, max_sd |-> 0]

BasicMutator(sd, change_perc) ==
  [kind |-> "basic", sd |-> sd, change_perc |-> <<change_perc>>, init_sd |-> 0,
   meta_sd_perc |-> 0, min_sd |-> 0, max_sd |-> 0]

RandomlyAdaptiveMutator(init_sd, change_perc, meta_sd_perc, min_sd, max_sd) ==
  [kind |-> "adaptive", sd |-> 0, change_perc |-> change_perc,
   init_sd |-> init_sd, meta_sd_perc |-> meta_sd_perc,
   min_sd |-> min_sd, max_sd |-> max_sd]

(***************************************************************************)
(* BasicMutator.                                                           *)
(***************************************************************************)
BasicInitialize(p) == p

\* split_params(p) = (p, jp.empty(0))
BasicSplitParams(p) == <<p, <<>>>>

\* (jr.uniform(k2, p.shape) < self.change_perc).astype(jp.float32)
BernoulliMask(u, change_perc) ==
  [i \in 1..Len(u) |-> IF u[i] < change_perc THEN 1 ELSE 0]


\* a mutate that adds the noise at every index, masked or not
BasicMutateUnmasked(m, p, normal, u) ==
  [i \in 1..Len(p) |-> p[i] + normal[i] * m.sd]

\* dp = normal * sd * mask; return p + dp
BasicMutate(m, p, normal, u) ==
  LET msk == BernoulliMask(u, m.change_perc[1])
      dp  == [i \in 1..Len(p) |-> normal[i] * m.sd * msk[i]]
  IN  [i \in 1..Len(p) |-> p[i] + dp[i]]

\* k1, k2 = jr.split(key); jr.normal(k1, ...); jr.uniform(k2, ...)
BasicMutateKeys(key) ==
  LET k1 == Split(key)[1]
      k2 == Split(key)[2]
  IN  <<KeySplit(key), KeySample(k1), KeySample(k2)>>

(***************************************************************************)
(* RandomlyAdaptiveMutator.                                                *)
(***************************************************************************)

\* a join that concatenates instead of interleaving
JoinParamsConcat(p, sd) == p \o sd

\* jp.ravel(jp.column_stack((p, sd))): rows (p[i], sd[i]) laid out in order
JoinParams(p, sd) ==
  [j \in 1..(2 * Len(p)) |-> IF j % 2 = 1 THEN p[(j + 1) \div 2] ELSE sd[j \div 2]]

\* sd = jp.full_like(p, self.init_sd); join_params(p, sd)
AdaptiveInitialize(m, p) == JoinParams(p, Full(Len(p), m.init_sd))

\* p.reshape((len // 2, 2)) is defined for an even length only
CanSplit(p) == Len(p) % 2 = 0

\* p.reshape((len // 2, 2)), split along the pair axis, column 0 of each half
AdaptiveSplitParams(p) ==
  <<[i \in 1..(Len(p) \div 2) |-> p[2 * i - 1]],
    [i \in 1..(Len(p) \div 2) |-> p[2 * i]]>>

\* which parameters a call perturbs: all of them when change_perc is None
AdaptiveMask(m, u, L) ==
  IF m.change_perc = <<>> THEN Full(L, 1)
  ELSE BernoulliMask(u, m.change_perc[1])

\* a mutate that masks the value's change and not the std-dev's
AdaptiveMutateSdUnmasked(m, p, z1, z2, u) ==
  LET mu  == AdaptiveSplitParams(p)[1]
      sd  == AdaptiveSplitParams(p)[2]
      L   == Len(sd)
      msk == AdaptiveMask(m, u, L)
      new_mu == [i \in 1..L |-> mu[i] + z1[i] * sd[i] * msk[i]]
      new_sd == [i \in 1..L |->
                   Clip(sd[i] + z2[i] * sd[i] * m.meta_sd_perc, m.min_sd, m.max_sd)]
  IN  JoinParams(new_mu, new_sd)

\* a mutate that returns the new values without their std-devs
AdaptiveMutateNoJoin(m, p, z1, z2, u) ==
  LET mu  == AdaptiveSplitParams(p)[1]
      sd  == AdaptiveSplitParams(p)[2]
      msk == AdaptiveMask(m, u, Len(sd))
  IN  [i \in 1..Len(sd) |-> mu[i] + z1[i] * sd[i] * msk[i]]

AdaptiveMutate(m, p, z1, z2, u) ==
  LET mu  == AdaptiveSplitParams(p)[1]
      sd  == AdaptiveSplitParams(p)[2]
      L   == Len(sd)
      dmu0 == [i \in 1..L |-> z1[i] * sd[i]]
      dsd0 == [i \in 1..L |-> z2[i] * sd[i] * m.meta_sd_perc]
      msk  == BernoulliMask(u, m.change_perc[1])
      dmu  == IF m.change_perc = <<>> THEN dmu0
              ELSE [i \in 1..L |-> dmu0[i] * msk[i]]
      dsd  == IF m.change_perc = <<>> THEN dsd0
              ELSE [i \in 1..L |-> dsd0[i] * msk[i]]
      new_mu == [i \in 1..L |-> mu[i] + dmu[i]]
      new_sd == [i \in 1..L |-> Clip(sd[i] + dsd[i], m.min_sd, m.max_sd)]
  IN  JoinParams(new_mu, new_sd)

\* a mutate that splits its input key again instead of the carried one
AdaptiveMutateKeysReuse(m, key) ==
  LET ku1 == Split(key)[1]
      ku2 == Split(key)[1]
      ku3 == Split(key)[1]
  IN  <<KeySplit(key), KeySample(ku1), KeySplit(key), KeySample(ku2)>>
      \o (IF m.change_perc = <<>> THEN <<>>
          ELSE <<KeySplit(key), KeySample(ku3)>>)

\* ku, key = jr.split(key), three times (twice when change_perc is None)
AdaptiveMutateKeys(m, key) ==
  LET ku1  == Split(key)[1]
      key1 == Split(key)[2]
      ku2  == Split(key1)[1]
      key2 == Split(key1)[2]
      ku3  == Split(key2)[1]
  IN  <<KeySplit(key), KeySample(ku1), KeySplit(key1), KeySample(ku2)>>
      \o (IF m.change_perc = <<>> THEN <<>>
          ELSE <<KeySplit(key2), KeySample(ku3)>>)

(***************************************************************************)
(* The Mutator interface, dispatched on the object's class.                *)
(***************************************************************************)
MutatorInitialize(m, p) ==
  IF m.kind = "basic" THEN BasicInitialize(p) ELSE AdaptiveInitialize(m, p)

MutatorSplitParams(m, p) ==
  IF m.kind = "basic" THEN BasicSplitParams(p) ELSE AdaptiveSplitParams(p)

\* whether mutate(key, p) returns rather than raises
MutatorAccepts(m, p) == m.kind = "basic" \/ CanSplit(p)

\* the number of parameters a sampler is asked for (p.shape or sd.shape)
DrawLen(m, p) == IF m.kind = "basic" THEN Len(p) ELSE Len(p) \div 2

MutatorMutate(m, p, d) ==
  IF m.kind = "basic" THEN BasicMutate(m, p, d.z1, d.u)
  ELSE AdaptiveMutate(m, p, d.z1, d.z2, d.u)

MutatorMask(m, d) ==
  IF m.kind = "basic" THEN BernoulliMask(d.u, m.change_perc[1])
  ELSE AdaptiveMask(m, d.u, Len(d.z1))

MutatorMutateKeys(m, key) ==
  IF m.kind = "basic" THEN BasicMutateKeys(key) ELSE AdaptiveMutateKeys(m, key)

\* the draws of one mutate call on n parameters
Draws(m, n) ==
  IF m.kind = "basic"
  THEN [z1 : Vec(NormalSamples, n), z2 : {<<>>}, u : Vec(UniformSamples, n)]
  ELSE [z1 : Vec(TruncatedNormalSamples, n),
        z2 : Vec(TruncatedNormalSamples, n),
        u  : IF m.change_perc = <<>> THEN {<<>>} ELSE Vec(UniformSamples, n)]

(***************************************************************************)
(* valuenoise1d.  Its values are kept as integers by scaling: a "linear"   *)
(* result is in units of 1/n_repeats, a "cubic" one of 1/n_repeats^5.      *)
(***************************************************************************)
\* int(math.ceil(n / d))
CeilDiv(n, d) == (n + d - 1) \div d


\* jp.tile taken for jp.repeat
RepeatAsTile(s, r) == [i \in 1..(Len(s) * r) |-> s[((i - 1) % Len(s)) + 1]]

\* jp.repeat(s, r, axis=0): every element r times in a row
Repeat(s, r) == [i \in 1..(Len(s) * r) |-> s[((i - 1) \div r) + 1]]

\* jp.tile(s, k): the whole of s, k times
Tile(s, k) == [i \in 1..(Len(s) * k) |-> s[((i - 1) % Len(s)) + 1]]

\* s[:n]
Take(s, n) == [i \in 1..Min(n, Len(s)) |-> s[i]]

\* jp.linspace(0, 1, r + 1)[:-1], as numerators over r
LinspaceNum(r) == [i \in 1..r |-> i - 1]


\* a repeat-count rounded down
NRepeatsFloor(f, n) == n \div (f - 1)

NRepeats(f, n) == CeilDiv(n, f - 1)

\* t*t*t*(t*(t*6 - 15) + 10) for t = j/r, as a numerator over r^5
Smoothstep(j, r) == j * j * j * (j * (j * 6 - 15 * r) + 10 * r * r)

NoiseScale(r, interpolation) ==
  IF interpolation = "cubic" THEN r * r * r * r * r ELSE r

Valuenoise1d(grads, f, n, interpolation) ==
  LET n_repeats == NRepeats(f, n)
      prev == Take(Repeat([i \in 1..(f - 1) |-> grads[i]], n_repeats), n)
      next == Take(Repeat([i \in 1..(f - 1) |-> grads[i + 1]], n_repeats), n)
      t0   == Take(Tile(LinspaceNum(n_repeats), f - 1), n)
      t    == IF interpolation = "cubic"
              THEN [i \in 1..Len(t0) |-> Smoothstep(t0[i], n_repeats)]
              ELSE t0
      one  == NoiseScale(n_repeats, interpolation)
  IN  [i \in 1..Len(prev) |-> prev[i] * one + t[i] * (next[i] - prev[i])]

\* ku, key = jr.split(key); grads = jr.uniform(ku, ...)
Valuenoise1dKeys(key) == <<KeySplit(key), KeySample(Split(key)[1])>>

(***************************************************************************)
(* CrossOverSexualMutator.                                                 *)
(***************************************************************************)
\* numpy broadcasting of two 1-D arrays
Broadcastable(a, b) == Len(a) = Len(b) \/ Len(a) = 1 \/ Len(b) = 1

At(a, i) == IF Len(a) = 1 THEN a[1] ELSE a[i]

\* valuenoise1d(...) > 0
Threshold(v) == [i \in 1..Len(v) |-> IF v[i] > 0 THEN 1 ELSE 0]


\* a recombination that forgets to complement the mask
CrossOverNoComplement(xo_mask, p1, p2) ==
  [i \in 1..Max(Len(p1), Len(p2)) |->
     At(xo_mask, i) * At(p1, i) + At(p2, i)]

\* new_p = xo_mask * p1 + (1. - xo_mask) * p2
CrossOver(xo_mask, p1, p2) ==
  [i \in 1..Max(Len(p1), Len(p2)) |->
     At(xo_mask, i) * At(p1, i) + (1 - At(xo_mask, i)) * At(p2, i)]

\* ku, key = jr.split(key); valuenoise1d(ku, ...); ku, key = jr.split(key);
\* self.mutator.mutate(ku, new_p)
CrossOverKeys(m, key, reached_mutator) ==
  LET ku1  == Split(key)[1]
      key1 == Split(key)[2]
      ku2  == Split(key1)[1]
  IN  <<KeySplit(key), KeyCall(ku1)>> \o Valuenoise1dKeys(ku1)
      \o (IF reached_mutator
          THEN <<KeySplit(key1), KeyCall(ku2)>> \o MutatorMutateKeys(m, ku2)
          ELSE <<>>)

(***************************************************************************)
(* The objects and inputs explored.                                        *)
(***************************************************************************)
\* (sd, change_perc)
BasicMutators == {BasicMutator(1, 0), BasicMutator(0, 2), BasicMutator(1, 1)}

\* (init_sd, change_perc, meta_sd_perc, min_sd, max_sd); the fourth starts
\* outside its clamp range and the fifth has min_sd > max_sd
AdaptiveMutators ==
  {RandomlyAdaptiveMutator(1, <<>>, 1, 1, 2),
   RandomlyAdaptiveMutator(1, <<1>>, 1, 1, 2),
   RandomlyAdaptiveMutator(2, <<>>, 0, 1, 2),
   RandomlyAdaptiveMutator(3, <<0>>, 1, 1, 2),
   RandomlyAdaptiveMutator(1, <<>>, 1, 2, 1)}

\* the raw model vectors: all zeros, and 1, 2, ..., n
RawVectors == UNION {{Full(n, 0), [i \in 1..n |-> i]} : n \in 1..MaxLen}

ModelValues(m, p) == MutatorSplitParams(m, p)[1]

Abs(x) == IF x < 0 THEN -x ELSE x

RECURSIVE AbsSum(_)
AbsSum(v) == IF Len(v) = 0 THEN 0 ELSE Abs(v[Len(v)]) + AbsSum(SubSeq(v, 1, Len(v) - 1))

InRange(v) == AbsSum(v) <= MaxVal

\* the second parent offered to a sexual mutate: the first itself, or any
\* freshly initialized genome, whatever its length
Mates(m, p1) == {p1} \cup {MutatorInitialize(m, q) : q \in RawVectors}

NoDraws == [z1 |-> <<>>, z2 |-> <<>>, u |-> <<>>]
NoXo == [p1 |-> <<>>, p2 |-> <<>>, xo_mask |-> <<>>, new_p |-> <<>>]
NoNoise == [f |-> 0, n |-> 0, interpolation |-> "", grads |-> <<>>, out |-> <<>>]

(***************************************************************************)
(* Init: the module is loaded, no object constructed yet.                  *)
(***************************************************************************)
Init ==
  /\ mutator = NoMutator
  /\ sexual = <<>>
  /\ genome = <<>>
  /\ ret = <<>>
  /\ op = "new"
  /\ raised = FALSE
  /\ arg = <<>>
  /\ mask = <<>>
  /\ keys = <<>>
  /\ draws = NoDraws
  /\ xo = NoXo
  /\ noise = NoNoise

\* BasicMutator.__init__ / RandomlyAdaptiveMutator.__init__
NewMutator ==
  /\ op = "new"
  /\ \E m \in BasicMutators \cup AdaptiveMutators : mutator' = m
  /\ op' = "construct"
  /\ UNCHANGED <<sexual, genome, ret, raised, arg, mask, keys, draws, xo, noise>>

\* CrossOverSexualMutator.__init__(mutator, n_frequencies)
NewCrossOver ==
  /\ op = "construct"
  /\ \E f \in 2..MaxF : sexual' = <<f>>
  /\ op' = "construct_sexual"
  /\ UNCHANGED <<mutator, genome, ret, raised, arg, mask, keys, draws, xo, noise>>

\* mutator.initialize(key, p), once per newly created genome
Initialize ==
  /\ op \in {"construct", "construct_sexual"}
  /\ \E p \in RawVectors :
       /\ ret' = MutatorInitialize(mutator, p)
       /\ arg' = p
  /\ op' = "initialize"
  /\ UNCHANGED <<mutator, sexual, genome, raised, mask, keys, draws, xo, noise>>

\* the caller keeps the returned vector as the genome of the next parent
Adopt ==
  /\ op \in {"initialize", "mutate"}
  /\ genome' = ret
  /\ ret' = <<>>
  /\ op' = "adopt"
  /\ arg' = <<>>
  /\ mask' = <<>>
  /\ keys' = <<>>
  /\ UNCHANGED <<mutator, sexual, raised, draws, xo, noise>>

\* mutator.mutate(key, genome), the asexual reproduction event; explored in
\* the runs without a sexual mutator
Mutate ==
  /\ op = "adopt"
  /\ sexual = <<>>
  /\ MutatorAccepts(mutator, genome)
  /\ \E d \in Draws(mutator, DrawLen(mutator, genome)) :
     \E out \in {MutatorMutate(mutator, genome, d)} :
       /\ InRange(ModelValues(mutator, out))
       /\ ret' = out
       /\ mask' = MutatorMask(mutator, d)
  /\ op' = "mutate"
  /\ keys' = MutatorMutateKeys(mutator, RootKey)
  /\ UNCHANGED <<mutator, sexual, genome, raised, arg, draws, xo, noise>>

\* sexual_mutator.mutate(key, genome, p2), the sexual reproduction event of a
\* freshly initialized genome; a shape error ends the call in an exception
SexualMutate ==
  /\ op = "adopt"
  /\ sexual # <<>>
  /\ \E p2 \in Mates(mutator, genome), grads \in Vec(XoGradSamples, sexual[1]) :
     \E out \in {Valuenoise1d(grads, sexual[1], Len(genome), "linear")} :
     \E xo_mask \in {Threshold(out)} :
     \E new_p \in {IF Broadcastable(genome, p2)
                   THEN CrossOver(xo_mask, genome, p2) ELSE <<>>} :
       LET ok == Broadcastable(genome, p2) /\ MutatorAccepts(mutator, new_p)
       IN  /\ noise' = [f |-> sexual[1], n |-> Len(genome),
                        interpolation |-> "linear", grads |-> grads, out |-> out]
           /\ raised' = ~ok
           /\ keys' = CrossOverKeys(mutator, RootKey, Broadcastable(genome, p2))
           /\ xo' = [p1 |-> genome, p2 |-> p2, xo_mask |-> xo_mask,
                     new_p |-> new_p]
           /\ IF ok
              THEN \E d \in Draws(mutator, DrawLen(mutator, new_p)) :
                     /\ ret' = MutatorMutate(mutator, new_p, d)
                     /\ mask' = MutatorMask(mutator, d)
                     /\ draws' = d
              ELSE /\ ret' = <<>>
                   /\ mask' = <<>>
                   /\ draws' = NoDraws
  /\ op' = "sexual_mutate"
  /\ UNCHANGED <<mutator, sexual, genome, arg>>

\* valuenoise1d(key, f, n, interpolation), called on its own
Noise ==
  /\ op = "new"
  /\ \E f \in 2..MaxF, n \in 1..MaxN, interpolation \in {"linear", "cubic"} :
       \E grads \in Vec(GradSamples, f) :
       \E out \in {Valuenoise1d(grads, f, n, interpolation)} :
         noise' = [f |-> f, n |-> n, interpolation |-> interpolation,
                   grads |-> grads, out |-> out]
  /\ op' = "valuenoise1d"
  /\ keys' = Valuenoise1dKeys(RootKey)
  /\ UNCHANGED <<mutator, sexual, genome, ret, raised, arg, mask, draws, xo>>

Next ==
  \/ NewMutator
  \/ NewCrossOver
  \/ Initialize
  \/ Adopt
  \/ Mutate
  \/ SexualMutate
  \/ Noise

Spec == Init /\ [][Next]_vars

(***************************************************************************)
(* The claims.                                                             *)
(***************************************************************************)
Mu(p) == MutatorSplitParams(mutator, p)[1]
Sd(p) == MutatorSplitParams(mutator, p)[2]

Adaptive == mutator.kind = "adaptive"
Basic    == mutator.kind = "basic"

SdsWithin(p) ==
  \A i \in 1..Len(Sd(p)) : mutator.min_sd <= Sd(p)[i] /\ Sd(p)[i] <= mutator.max_sd

\* the number of indices at which a mask switches value
Switches(m) == Cardinality({i \in 1..(Len(m) - 1) : m[i] # m[i + 1]})

\* C1: split_params(initialize(key, p)) gives back p as its model component,
\* for both mutators; for RandomlyAdaptiveMutator the std-dev component has
\* the length of p and is init_sd at every index.
C1_RoundTrip ==
  op = "initialize" =>
    /\ Mu(ret) = arg
    /\ Adaptive =>
         /\ Len(Sd(ret)) = Len(arg)
         /\ \A i \in 1..Len(arg) : Sd(ret)[i] = mutator.init_sd

C1_Witness ==
  /\ op = "initialize"
  /\ Adaptive
  /\ Len(arg) >= 2
  /\ arg[1] # arg[2]
  /\ arg[2] # mutator.init_sd

\* C2: with min_sd <= max_sd every std-dev of the vector RandomlyAdaptive-
\* Mutator.mutate returns lies in [min_sd, max_sd], whatever the draws and
\* change_perc; so a genome that started from initialize with init_sd in
\* that range keeps its std-devs in it over any number of mutate calls.
C2_SdWithinBounds ==
  (Adaptive /\ mutator.min_sd <= mutator.max_sd) =>
    /\ (op = "mutate" \/ (op = "sexual_mutate" /\ ~raised)) => SdsWithin(ret)
    /\ (mutator.min_sd <= mutator.init_sd /\ mutator.init_sd <= mutator.max_sd)
         => SdsWithin(genome) /\ SdsWithin(ret)

\* a later call of a chain (the std-dev has left init_sd) in which the upper
\* clamp acts on a perturbed parameter
C2_Witness ==
  /\ op = "mutate"
  /\ Adaptive
  /\ mutator.meta_sd_perc # 0
  /\ mutator.min_sd < mutator.max_sd
  /\ \E i \in 1..Len(mask) :
       /\ mask[i] = 1
       /\ Sd(genome)[i] = mutator.max_sd
       /\ Sd(genome)[i] # mutator.init_sd
       /\ Sd(ret)[i] = mutator.max_sd

\* C3 as stated: when change_perc is not None, in every call and at every
\* index the value changes if and only if its std-dev changes (taken here on
\* the inputs most favourable to it, those with std-devs in the clamp range).
C3_Coupling ==
  (op = "mutate" /\ Adaptive /\ mutator.change_perc # <<>> /\ SdsWithin(genome)) =>
    \A i \in 1..Len(mask) :
      (Mu(ret)[i] # Mu(genome)[i]) <=> (Sd(ret)[i] # Sd(genome)[i])

\* C3 as amended: when change_perc is not None and the input's std-devs lie
\* in [min_sd, max_sd], a parameter whose mask draw is false keeps both its
\* value and its std-dev; either one changes only where the mask is true.
C3_MaskedTogether ==
  (op = "mutate" /\ Adaptive /\ mutator.change_perc # <<>> /\ SdsWithin(genome)) =>
    \A i \in 1..Len(mask) :
      mask[i] = 0 => (Mu(ret)[i] = Mu(genome)[i] /\ Sd(ret)[i] = Sd(genome)[i])

C3_Witness ==
  /\ op = "mutate"
  /\ Adaptive
  /\ mutator.change_perc # <<>>
  /\ SdsWithin(genome)
  /\ Len(mask) >= 2
  /\ mask[1] = 1
  /\ mask[2] = 0
  /\ Mu(ret)[1] # Mu(genome)[1]
  /\ Sd(ret)[1] # Sd(genome)[1]

\* C4: BasicMutator.mutate returns p unchanged when change_perc = 0 or when
\* sd = 0, and in every call each parameter whose mask draw is false is
\* returned unchanged.
C4_BasicIdentity ==
  (op = "mutate" /\ Basic) =>
    /\ \A i \in 1..Len(genome) : mask[i] = 0 => ret[i] = genome[i]
    /\ (mutator.change_perc = <<0>> \/ mutator.sd = 0) => ret = genome

C4_Witness ==
  /\ op = "mutate"
  /\ Basic
  /\ Len(genome) >= 2
  /\ mask[1] = 1
  /\ mask[2] = 0
  /\ ret[1] # genome[1]

\* C5: CrossOverSexualMutator.mutate on parents of different lengths ends in
\* an exception and returns no offspring.
C5_MismatchRaises ==
  (op = "sexual_mutate" /\ Len(xo.p1) # Len(xo.p2)) => (raised /\ ret = <<>>)

\* C6: within one call every key is used at most once: two events on the
\* same key are only the passing of the key to a callee followed by the
\* callee's single use of it.
C6_KeyDiscipline ==
  \A i \in 1..Len(keys) : \A j \in (i + 1)..Len(keys) :
    keys[i].key = keys[j].key =>
      (keys[i].kind = "call" /\ keys[j].kind # "call")

C6_Witness ==
  /\ op = "sexual_mutate"
  /\ ~raised
  /\ Adaptive
  /\ mutator.change_perc # <<>>
  /\ Len(keys) = 12

\* C7: with identical parents the vector handed to the wrapped mutator is
\* the parent itself, whatever the crossover mask, and the offspring is the
\* wrapped mutator's mutate of it under the sub-key of the second split.
C7_IdenticalParents ==
  (op = "sexual_mutate" /\ xo.p1 = xo.p2) =>
    /\ ~raised
    /\ xo.new_p = xo.p1
    /\ ret = MutatorMutate(mutator, xo.p1, draws)
    /\ \E i \in 1..Len(keys) :
         /\ keys[i] = KeyCall(Split(Split(RootKey)[2])[1])
         /\ SubSeq(keys, i + 1, Len(keys))
              = MutatorMutateKeys(mutator, Split(Split(RootKey)[2])[1])

C7_Witness ==
  /\ op = "sexual_mutate"
  /\ xo.p1 = xo.p2
  /\ Switches(xo.xo_mask) >= 1
  /\ \E i \in 1..Len(xo.p1) : xo.p1[i] # 0
  /\ ret # xo.p1

\* C8: valuenoise1d returns exactly n values for every f >= 2 and n >= 1 and
\* both interpolations; the f-1 segments of ceil(n/(f-1)) repeats cover n.
C8_NoiseLength ==
  op \in {"valuenoise1d", "sexual_mutate"} =>
    /\ Len(noise.out) = noise.n
    /\ (noise.f - 1) * NRepeats(noise.f, noise.n) >= noise.n

\* a last segment cut short, and a call with fewer values than segments
C8_Witness ==
  /\ op = "valuenoise1d"
  /\ noise.interpolation = "cubic"
  /\ noise.f = 3
  /\ noise.n = 5
  /\ Len(noise.out) = 5

\* C9: mutate returns a vector of its input's length, which for Randomly-
\* AdaptiveMutator splits into values and std-devs of equal length; so does
\* CrossOverSexualMutator.mutate on two parents of equal length.
C9_ShapePreserved ==
  /\ op = "mutate" =>
       /\ Len(ret) = Len(genome)
       /\ Adaptive => (CanSplit(ret) /\ Len(Mu(ret)) = Len(Sd(ret))
                       /\ 2 * Len(Mu(ret)) = Len(ret))
  /\ (op = "sexual_mutate" /\ Len(xo.p1) = Len(xo.p2)) =>
       /\ ~raised
       /\ Len(ret) = Len(xo.p1)
       /\ Adaptive => (CanSplit(ret) /\ Len(Mu(ret)) = Len(Sd(ret))
                       /\ 2 * Len(Mu(ret)) = Len(ret))

C9_Witness ==
  /\ op = "sexual_mutate"
  /\ Adaptive
  /\ Len(xo.p1) = 4
  /\ Len(xo.p2) = 4
  /\ xo.p1 # xo.p2
  /\ Len(ret) = 4

\* C10: the mask of a "linear" valuenoise1d thresholded at > 0 switches value
\* at most f-1 times, and the crossover takes each index of the vector it
\* builds from p1 where the mask is true and from p2 where it is false.
C10_ContiguousRuns ==
  /\ (op \in {"valuenoise1d", "sexual_mutate"} /\ noise.interpolation = "linear")
       => Switches(Threshold(noise.out)) <= noise.f - 1
  /\ op = "sexual_mutate" =>
       /\ xo.xo_mask = Threshold(noise.out)
       /\ (~raised /\ Len(xo.p1) = Len(xo.p2)) =>
            \A i \in 1..Len(xo.p1) :
              xo.new_p[i] = IF xo.xo_mask[i] = 1 THEN xo.p1[i] ELSE xo.p2[i]

\* two switches in a three-frequency mask, the vector built taking indices
\* from each parent
C10_Witness ==
  /\ op = "sexual_mutate"
  /\ ~raised
  /\ noise.f = 3
  /\ Len(xo.p1) = Len(xo.p2)
  /\ Switches(xo.xo_mask) = 2
  /\ xo.new_p # xo.p1
  /\ xo.new_p # xo.p2

====
